---- MODULE Spec2Model ----
(***************************************************************************)
(* Model of the digity-strapi backend: the multi-tenant request-filtering  *)
(* middleware, the domain/path lookup controller and the markdown-driven   *)
(* content populator.                                                      *)
(*                                                                         *)
(* Strings the code inspects with startsWith / includes are sequences of   *)
(* tokens ("/api", "/pages", "?", "=", "&", ...), so that prefix and       *)
(* substring tests are computed and not assumed.  A JavaScript object is a *)
(* function from key paths to leaf values: {filters: {application: {id:    *)
(* {$eq: "7"}}}} is (<<"filters","application","id","$eq">> :> <<"7">>).   *)
(***************************************************************************)
EXTENDS Integers, Sequences, FiniteSets, TLC

VARIABLES
    mwpc,        \* middleware: "idle" | "received" | "done" | "threw"
    req,         \* the inbound request as sent: method, path, params, header
    ctx,         \* Koa context: method, url, header, query, state.applicationId
    query0,      \* ctx.query as parsed, before the middleware ran
    nextCalls,   \* number of times next() was invoked for this request
    ctlpc,       \* controller: "idle" | "done"
    db,          \* data layer seen by the controller: applications and pages
    call,        \* the controller call: op, domain, path, dbFails
    resp,        \* the controller's response: kind and payload
    ppc,         \* populator: the function the run is in, "returned", "exited"
    dryRun,      \* this.dryRun
    data,        \* the parsed seed: domain and pages, each with its blocks
    applicationId, \* this.applicationId (0: null)
    createdPages,  \* this.createdPages: page title -> identifier
    pageIdx,     \* position of createPages' loop
    blockIdx,    \* position of createSinglePage's block loop
    pageId,      \* createSinglePage's pageId (0: not assigned)
    success,     \* what populate returned: "pending" | "true" | "false"
    exitCode,    \* process exit code (-1: still running)
    srv,         \* the remote data layer: applications, pages, content blocks
    log,         \* the HTTP calls of this run, in the order they were made
    console,     \* the "DRY RUN: Would create ..." lines of this run, in order
    run,         \* number of the current populator run
    snap,        \* data layer and exit code at the end of the first run
    parpc,       \* parser: "idle" | "read" | "parsed"
    md,          \* the markdown file's content, line by line
    mdPages      \* what extractPages returned

mwVars  == <<mwpc, req, ctx, query0, nextCalls>>
ctlVars == <<ctlpc, db, call, resp>>
popVars == <<ppc, dryRun, data, applicationId, createdPages, pageIdx, blockIdx,
             pageId, success, exitCode, srv, log, console, run, snap>>
parVars == <<parpc, md, mdPages>>
vars    == <<mwVars, ctlVars, popVars, parVars>>

-----------------------------------------------------------------------------
(* Strings as token sequences *)

Undefined == <<"undefined">>
EmptyStr  == <<>>
EmptyObj  == <<"{}">>

StartsWith(s, p) ==
    /\ Len(p) <= Len(s)
    /\ SubSeq(s, 1, Len(p)) = p

Includes(s, p) ==
    \E i \in 1..(Len(s) - Len(p) + 1) : SubSeq(s, i, i + Len(p) - 1) = p

\* JavaScript truthiness of a string-or-undefined value
Truthy(v) == v # Undefined /\ v # EmptyStr

-----------------------------------------------------------------------------
(* Objects as maps from key paths to leaves *)

IsPrefix(p, k) == Len(p) <= Len(k) /\ SubSeq(k, 1, Len(p)) = p

\* obj.p is an object holding at least one key
HasKeysUnder(obj, p) == \E k \in DOMAIN obj : Len(k) > Len(p) /\ IsPrefix(p, k)

\* obj.p read as a leaf (undefined when absent)
Leaf(obj, p) == IF p \in DOMAIN obj THEN obj[p] ELSE Undefined

\* !obj.p is false
TruthyAt(obj, p) == HasKeysUnder(obj, p) \/ Truthy(Leaf(obj, p))

\* obj.p is a primitive string on which a property cannot be created
IsPrimitiveAt(obj, p) ==
    /\ p \in DOMAIN obj
    /\ obj[p] # EmptyObj

\* obj.p = sub (sub given relative to p); the holder of p stops being empty
Assign(obj, p, sub) ==
    LET parent == SubSeq(p, 1, Len(p) - 1)
        kept   == {k \in DOMAIN obj : ~IsPrefix(p, k) /\ k # parent}
        added  == {p \o k : k \in DOMAIN sub}
    IN  [k \in kept \cup added |->
            IF k \in added THEN sub[SubSeq(k, Len(p) + 1, Len(k))] ELSE obj[k]]

-----------------------------------------------------------------------------
(* Requests *)

Methods == {"GET", "POST", "PUT", "DELETE"}

TenantIds == {<<"42">>, <<"7">>}

Paths == {
    <<"/api", "/pages">>,
    <<"/api", "/pages", "/5">>,
    <<"/api", "/content-blocks">>,
    <<"/api", "/applications">>,
    <<"/api", "/users">>,
    <<"/admin", "/api", "/pages">>,
    <<"/admin", "/api", "/content-blocks">>,
    <<"/_health">>,
    <<"/uploads", "/logo">> }

Param(k, v) == [key |-> k, val |-> v]

ParamList == <<
    Param(<<"applicationId">>, <<"42">>),
    Param(<<"applicationId">>, <<"7">>),
    Param(<<"applicationId">>, EmptyStr),
    Param(<<"ref">>, <<"/api", "/applications">>),
    Param(<<"ref">>, <<"/api", "/pages">>),
    Param(<<"ref">>, <<"/api", "/content-blocks">>),
    Param(<<"ref">>, <<"x">>),
    Param(<<"filters">>, <<"abc">>),
    Param(<<"filters">>, EmptyStr),
    Param(<<"filters", "application", "id", "$eq">>, <<"42">>),
    Param(<<"filters", "application", "id", "$eq">>, <<"7">>),
    Param(<<"filters", "page", "slug">>, <<"home">>),
    Param(<<"filters", "title">>, <<"x">>) >>

MaxParams == 2

\* the keys of one query string are distinct and none addresses a part of another
PrefixFree(ps) ==
    \A i, j \in 1..Len(ps) : i # j => ~IsPrefix(ps[i].key, ps[j].key)

\* query strings: up to MaxParams parameters, listed in the order of ParamList
ParamSeqs ==
    LET picks == {f \in UNION {[1..n -> 1..Len(ParamList)] : n \in 0..MaxParams} :
                     \A i \in 1..(Len(f) - 1) : f[i] < f[i + 1]}
        all   == {[i \in 1..Len(f) |-> ParamList[f[i]]] : f \in picks}
    IN  {ps \in all : PrefixFree(ps)}

Headers == TenantIds \cup {Undefined, EmptyStr}

Requests == [method : Methods, path : Paths, params : ParamSeqs, header : Headers]

\* key[a][b] as tokens
RECURSIVE KeyTokens(_)
KeyTokens(k) ==
    IF Len(k) <= 1 THEN k
    ELSE KeyTokens(SubSeq(k, 1, Len(k) - 1)) \o <<"[", k[Len(k)], "]">>

RECURSIVE QueryString(_)
QueryString(ps) ==
    IF ps = <<>> THEN <<>>
    ELSE KeyTokens(ps[1].key) \o <<"=">> \o ps[1].val
         \o (IF Len(ps) > 1 THEN <<"&">> \o QueryString(Tail(ps)) ELSE <<>>)

\* request.url: the path followed by the raw query string
Url(r) == r.path \o (IF r.params = <<>> THEN <<>> ELSE <<"?">> \o QueryString(r.params))

\* ctx.query: the query string parsed into a nested object
ParseQuery(ps) ==
    [k \in {ps[i].key : i \in 1..Len(ps)} |->
        ps[CHOOSE i \in 1..Len(ps) : ps[i].key = k].val]

NoCtx == [method |-> "GET", url |-> <<>>, header |-> Undefined,
          query |-> ParseQuery(<<>>), applicationId |-> Undefined]

NoReq == [method |-> "GET", path |-> <<>>, params |-> <<>>, header |-> Undefined]

-----------------------------------------------------------------------------
(* Multi-tenant middleware *)

\* header['x-application-id'] || ctx.query.applicationId
TenantIdSwapped(c) ==
    IF Truthy(Leaf(c.query, <<"applicationId">>))
    THEN Leaf(c.query, <<"applicationId">>)
    ELSE c.header

TenantId(c) ==
    IF Truthy(c.header) THEN c.header ELSE Leaf(c.query, <<"applicationId">>)

SkipsNonApi(c) ==
    \/ StartsWith(c.url, <<"/admin">>)
    \/ StartsWith(c.url, <<"/_health">>)
    \/ ~StartsWith(c.url, <<"/api">>)

SkipsApplications(c) == Includes(c.url, <<"/api", "/applications">>)

IsPagesUrl(c)  == Includes(c.url, <<"/api", "/pages">>)
IsBlocksUrl(c) == Includes(c.url, <<"/api", "/content-blocks">>)

\* {id: {$eq: applicationId}}
IdEq(t) == [k \in {<<"id", "$eq">>} |-> t]
\* {application: {id: {$eq: applicationId}}}
AppIdEq(t) == [k \in {<<"application", "id", "$eq">>} |-> t]

\* if (!originalQuery.filters) originalQuery.filters = {}
EnsureFilters(q) ==
    IF TruthyAt(q, <<"filters">>) THEN q
    ELSE [k \in (DOMAIN q) \cup {<<"filters">>} |->
             IF k = <<"filters">> THEN EmptyObj ELSE q[k]]

\* The filtering branch.  Creating a property on a primitive string throws a
\* TypeError in module (strict) code, which ends the handler before next().
InjectFilters(c, t) ==
    LET q1 == EnsureFilters(c.query)
        q2 == IF IsPagesUrl(c) THEN Assign(q1, <<"filters", "application">>, IdEq(t)) ELSE q1
        q3 == IF IsBlocksUrl(c) THEN Assign(q2, <<"filters", "page">>, AppIdEq(t)) ELSE q2
    IN  IF IsPrimitiveAt(q1, <<"filters">>)
        THEN [query |-> q1, threw |-> TRUE]
        ELSE [query |-> q3, threw |-> FALSE]

\* The whole handler: the context it leaves and whether next() was reached
Middleware(c) ==
    LET t == TenantId(c) IN
    IF SkipsNonApi(c) \/ SkipsApplications(c) \/ ~Truthy(t)
    THEN [ctx |-> c, next |-> 1]
    ELSE IF c.method = "GET" /\ (IsPagesUrl(c) \/ IsBlocksUrl(c))
         THEN LET r == InjectFilters(c, t) IN
              [ctx  |-> [c EXCEPT !.applicationId = t, !.query = r.query],
               next |-> IF r.threw THEN 0 ELSE 1]
         ELSE [ctx |-> [c EXCEPT !.applicationId = t], next |-> 1]

\* a request has arrived and the framework has built its context
MwReceived(r) ==
    /\ req = r
    /\ ctx = [method |-> r.method, url |-> Url(r), header |-> r.header,
              query |-> ParseQuery(r.params), applicationId |-> Undefined]
    /\ query0 = ParseQuery(r.params)
    /\ nextCalls = 0
    /\ mwpc = "received"

\* the middleware runs to its end
MwHandle ==
    /\ mwpc = "received"
    /\ LET out == Middleware(ctx) IN
        /\ ctx' = out.ctx
        /\ nextCalls' = out.next
        /\ mwpc' = IF out.next = 1 THEN "done" ELSE "threw"
    /\ UNCHANGED <<req, query0, ctlVars, popVars, parVars>>


MwIdle ==
    /\ mwpc = "idle"
    /\ req = NoReq
    /\ ctx = NoCtx
    /\ query0 = NoCtx.query
    /\ nextCalls = 0

-----------------------------------------------------------------------------
(* Domain/path lookup controller *)

NoParam == "undefined"

Domains == {"a.com", "b.com"}
AppIdOf(d) == IF d = "a.com" THEN 1 ELSE 2

PagePaths == {"/", "/about"}

\* application rows: unique by domain
AppSets ==
    {S \in SUBSET [id : {1, 2}, domain : Domains, active : BOOLEAN] :
        /\ \A a \in S : a.id = AppIdOf(a.domain)
        /\ \A a, b \in S : a.domain = b.domain => a = b}

MaxDbPages == 2

\* page rows: each belongs to one application; published is publishedAt # null
PageSets(apps) ==
    LET Row == [app : {a.id : a \in apps}, path : PagePaths, published : BOOLEAN] IN
    {{[id |-> i, app |-> f[i].app, path |-> f[i].path, published |-> f[i].published] :
          i \in DOMAIN f} :
        f \in UNION {[1..n -> Row] : n \in 0..MaxDbPages}}

Response(kind, app, pages) == [kind |-> kind, app |-> app, pages |-> pages]

\* !v for a route parameter
Missing(v) == v = NoParam \/ v = ""

\* findOne({where: {domain}})
AppsByDomain(d, domain) == {a \in d.apps : a.domain = domain}

FindByDomainNoActiveCheck(d, domain, fails) ==
    IF Missing(domain) THEN {Response("badRequest", 0, {})}
    ELSE IF fails # 0 THEN {Response("error500", 0, {})}
    ELSE IF AppsByDomain(d, domain) = {} THEN {Response("notFound", 0, {})}
    ELSE {Response("ok", a.id, {pg \in d.pages : pg.app = a.id /\ pg.published}) :
             a \in AppsByDomain(d, domain)}

\* the responses findByDomain can give; fails # 0: the data-layer query throws
FindByDomain(d, domain, fails) ==
    IF Missing(domain) THEN {Response("badRequest", 0, {})}
    ELSE IF fails # 0 THEN {Response("error500", 0, {})}
    ELSE IF AppsByDomain(d, domain) = {} THEN {Response("notFound", 0, {})}
    ELSE {IF ~a.active
          THEN Response("forbidden", 0, {})
          ELSE Response("ok", a.id, {pg \in d.pages : pg.app = a.id /\ pg.published}) :
             a \in AppsByDomain(d, domain)}

\* findOne on pages: application, path (empty normalised to "/"), published
PagesByPath(d, appId, path) ==
    {pg \in d.pages :
        /\ pg.app = appId
        /\ pg.path = (IF path = "" THEN "/" ELSE path)
        /\ pg.published}

\* the responses findPageByPath can give; fails = 1, 2: that query throws
FindPageByPath(d, domain, path, fails) ==
    IF Missing(domain) \/ Missing(path) THEN {Response("badRequest", 0, {})}
    ELSE IF fails = 1 THEN {Response("error500", 0, {})}
    ELSE IF \A a \in AppsByDomain(d, domain) : ~a.active
         THEN {Response("notFound", 0, {})}
    ELSE IF fails = 2 THEN {Response("error500", 0, {})}
    ELSE UNION {
            IF PagesByPath(d, a.id, path) = {}
            THEN {Response("notFound", 0, {})}
            ELSE {Response("ok", a.id, {pg}) : pg \in PagesByPath(d, a.id, path)} :
            a \in AppsByDomain(d, domain)}

CtlFindByDomain ==
    /\ ctlpc = "idle"
    /\ \E domain \in Domains \cup {"c.com", "", NoParam}, fails \in {0, 1} :
        /\ call' = [op |-> "findByDomain", domain |-> domain, path |-> NoParam,
                    fails |-> fails]
        /\ resp' \in FindByDomain(db, domain, fails)
    /\ ctlpc' = "done"
    /\ UNCHANGED <<db, mwVars, popVars, parVars>>

CtlFindPageByPath ==
    /\ ctlpc = "idle"
    /\ \E domain \in Domains \cup {"c.com", NoParam},
          path \in PagePaths \cup {"", "/none", NoParam}, fails \in {0, 1, 2} :
        /\ call' = [op |-> "findPageByPath", domain |-> domain, path |-> path,
                    fails |-> fails]
        /\ resp' \in FindPageByPath(db, domain, path, fails)
    /\ ctlpc' = "done"
    /\ UNCHANGED <<db, mwVars, popVars, parVars>>

NoCall == [op |-> "none", domain |-> NoParam, path |-> NoParam, fails |-> 0]

-----------------------------------------------------------------------------
(* Content populator and the data layer it talks to *)

MaxSeedPages  == 2
MaxSeedBlocks == 2
MaxRuns       == 2

SeedDomain == "a.com"
SlugList   == <<"home", "about">>

\* block metadata as parsed: block_type and order; the order fields run
\* against the order in which the blocks are written
BlockList == <<[blockType |-> "hero", order |-> 2], [blockType |-> "footer", order |-> 1]>>

\* the blocks of a page: the first n of hero, footer, hero, ...
BlockSeqs ==
    {[i \in 1..n |-> BlockList[((i - 1) % Len(BlockList)) + 1]] : n \in 0..MaxSeedBlocks}

\* a parsed page: metadata (title and slug, here the same word) and blocks.
\* The pages of a seed carry the slugs home, about, home, ... or all the
\* same slug.
SeedPage(i, same, blocks) ==
    [slug   |-> IF same THEN SlugList[1] ELSE SlugList[((i - 1) % Len(SlugList)) + 1],
     blocks |-> blocks]

Seeds ==
    {[domain |-> SeedDomain, pages |-> [i \in 1..n |-> SeedPage(i, same, bs[i])]] :
        <<n, same, bs>> \in
            {<<n, same, bs>> \in (0..MaxSeedPages) \X BOOLEAN
                                  \X UNION {[1..m -> BlockSeqs] : m \in 0..MaxSeedPages} :
                Len(bs) = n}}

NoSrv == [apps |-> {}, pages |-> {}, blocks |-> {}]

\* data layers a run can meet at its start: empty, or the tenant already there
InitialSrvs ==
    {NoSrv, [NoSrv EXCEPT !.apps = {[id |-> 1, domain |-> SeedDomain]}]}

\* one HTTP call: what was sent and how it was answered
Call(method, endpoint, outcome, pg, payload) ==
    [method |-> method, endpoint |-> endpoint, outcome |-> outcome, page |-> pg,
     app |-> payload.app, pid |-> payload.pid, slug |-> payload.slug,
     blockType |-> payload.blockType, order |-> payload.order]

NoPayload == [app |-> 0, pid |-> 0, slug |-> "", blockType |-> "", order |-> 0]

\* rows a GET with these filters matches
AppsWithDomain(s, domain) == {a \in s.apps : a.domain = domain}
PagesWithSlug(s, slug, app) == {pg \in s.pages : pg.slug = slug /\ pg.app = app}

\* answers the data layer can give to POST /api/applications: domain is unique
PostAppOutcomes(s, domain) ==
    {"error"} \cup (IF AppsWithDomain(s, domain) = {} THEN {"created"} ELSE {"conflict"})

\* answers to POST /api/pages: slug is unique within an application
PostPageOutcomes(s, slug, app) ==
    {"error"} \cup (IF PagesWithSlug(s, slug, app) = {} THEN {"created"} ELSE {"conflict"})

\* answers to POST /api/content-blocks: no uniqueness rule
PostBlockOutcomes == {"error", "created"}

\* answers to a filtered GET: the matching rows, an empty list (rows the
\* endpoint does not list), or a failed call
GetOutcomes(matches) ==
    {"error", "empty"} \cup (IF matches = {} THEN {} ELSE {"found"})

NewId(rows) == Cardinality(rows) + 1

\* error.message.includes('must be unique')
NeverUniqueConflict(outcome) == FALSE

IsUniqueConflict(outcome) == outcome = "conflict"

\* for (const blockData of blocks): the i-th block in parse order
NthBlockByOrder(blocks, i) ==
    CHOOSE b \in {blocks[j] : j \in DOMAIN blocks} :
        Cardinality({j \in DOMAIN blocks : blocks[j].order < b.order}) < i
        /\ Cardinality({j \in DOMAIN blocks : blocks[j].order <= b.order}) >= i

NthBlock(blocks, i) == blocks[i]

\* if (this.dryRun): the step logs what it would create and returns before
\* makeRequest
DryRunIgnored(flag) == FALSE

IsDryRun(flag) == flag

\* logInfo('DRY RUN: Would create ...')
WouldCreate(step, pg) == [step |-> step, page |-> pg]

\* if (!success) return false
LoopIgnoresFailure(ok) == TRUE

LoopGoesOn(ok) == ok

PopFresh ==
    /\ ppc = "start"
    /\ applicationId = 0
    /\ createdPages = <<>>
    /\ pageIdx = 0
    /\ blockIdx = 0
    /\ pageId = 0
    /\ success = "pending"
    /\ exitCode = -1
    /\ log = <<>>
    /\ console = <<>>

NoSnap == [srv |-> NoSrv, exitCode |-> -1]

PopIdle ==
    /\ PopFresh
    /\ dryRun = FALSE
    /\ data = [domain |-> SeedDomain, pages |-> <<>>]
    /\ srv = NoSrv
    /\ run = 0
    /\ snap = NoSnap

\* createPages' loop after a page and its blocks are done
AfterPage ==
    IF pageIdx < Len(data.pages)
    THEN /\ ppc' = "createSinglePage"
         /\ pageIdx' = pageIdx + 1
         /\ success' = success
    ELSE /\ ppc' = "returned"
         /\ pageIdx' = pageIdx
         /\ success' = "true"

\* a step reports failure: populate returns false
ReturnFalse ==
    /\ ppc' = "returned"
    /\ success' = "false"

\* main: the file is read and parsed inside populate's try block
PopParse ==
    /\ ppc = "start"
    /\ \E parsed \in BOOLEAN :
        IF parsed
        THEN ppc' = "createApplication" /\ success' = success
        ELSE ReturnFalse
    /\ UNCHANGED <<dryRun, data, applicationId, createdPages, pageIdx, blockIdx, pageId,
                   exitCode, srv, log, console, run, snap, mwVars, ctlVars, parVars>>

\* createPages entered with the application identifier set
EnterPages ==
    IF Len(data.pages) = 0
    THEN ppc' = "returned" /\ success' = "true" /\ pageIdx' = pageIdx
    ELSE ppc' = "createSinglePage" /\ success' = success /\ pageIdx' = 1

\* createApplication, with its re-fetch on a uniqueness conflict
PopCreateApplication ==
    /\ ppc = "createApplication"
    /\ LET payload == [NoPayload EXCEPT !.slug = data.domain]
           post(o) == Call("POST", "/api/applications", o, 0, payload)
           get(o)  == Call("GET", "/api/applications", o, 0, payload)
       IN
       IF IsDryRun(dryRun)
       THEN /\ applicationId' = 1
            /\ EnterPages
            /\ UNCHANGED <<srv, log>>
       ELSE \E o \in PostAppOutcomes(srv, data.domain) :
            IF o = "created"
            THEN /\ srv' = [srv EXCEPT !.apps = @ \cup
                               {[id |-> NewId(srv.apps), domain |-> data.domain]}]
                 /\ applicationId' = NewId(srv.apps)
                 /\ log' = Append(log, post(o))
                 /\ EnterPages
            ELSE IF IsUniqueConflict(o)
            THEN \E g \in GetOutcomes(AppsWithDomain(srv, data.domain)) :
                 /\ log' = log \o <<post(o), get(g)>>
                 /\ srv' = srv
                 /\ IF g = "found"
                    THEN /\ \E a \in AppsWithDomain(srv, data.domain) :
                                applicationId' = a.id
                         /\ EnterPages
                    ELSE /\ ReturnFalse
                         /\ UNCHANGED <<applicationId, pageIdx>>
            ELSE /\ log' = Append(log, post(o))
                 /\ ReturnFalse
                 /\ UNCHANGED <<srv, applicationId, pageIdx>>
    /\ console' = IF IsDryRun(dryRun)
                  THEN Append(console, WouldCreate("application", 0))
                  ELSE console
    /\ UNCHANGED <<dryRun, data, createdPages, blockIdx, pageId, exitCode, run, snap,
                   mwVars, ctlVars, parVars>>

\* createSinglePage reached its block loop with pageId assigned
EnterBlocks(id) ==
    /\ pageId' = id
    /\ createdPages' =
           [t \in (DOMAIN createdPages) \cup {data.pages[pageIdx].slug} |->
               IF t = data.pages[pageIdx].slug THEN id ELSE createdPages[t]]
    /\ IF Len(data.pages[pageIdx].blocks) = 0
       THEN AfterPage /\ blockIdx' = blockIdx
       ELSE /\ ppc' = "createContentBlock"
            /\ blockIdx' = 1
            /\ UNCHANGED <<pageIdx, success>>

\* createSinglePage up to its block loop, with its re-fetch on a conflict
PopCreateSinglePage ==
    /\ ppc = "createSinglePage"
    /\ LET pg      == data.pages[pageIdx]
           payload == [NoPayload EXCEPT !.slug = pg.slug, !.app = applicationId]
           post(o) == Call("POST", "/api/pages", o, pageIdx, payload)
           get(o)  == Call("GET", "/api/pages", o, pageIdx, payload)
           matches == PagesWithSlug(srv, pg.slug, applicationId)
       IN
       IF IsDryRun(dryRun)
       THEN /\ EnterBlocks(Cardinality(DOMAIN createdPages) + 1)
            /\ UNCHANGED <<srv, log>>
       ELSE \E o \in PostPageOutcomes(srv, pg.slug, applicationId) :
            IF o = "created"
            THEN /\ srv' = [srv EXCEPT !.pages = @ \cup
                               {[id |-> NewId(srv.pages), slug |-> pg.slug,
                                 app |-> applicationId]}]
                 /\ log' = Append(log, post(o))
                 /\ EnterBlocks(NewId(srv.pages))
            ELSE IF IsUniqueConflict(o)
            THEN \E g \in GetOutcomes(matches) :
                 /\ log' = log \o <<post(o), get(g)>>
                 /\ srv' = srv
                 /\ IF g = "found"
                    THEN \E m \in matches : EnterBlocks(m.id)
                    ELSE /\ ReturnFalse
                         /\ UNCHANGED <<pageId, createdPages, pageIdx, blockIdx>>
            ELSE /\ log' = Append(log, post(o))
                 /\ ReturnFalse
                 /\ UNCHANGED <<srv, pageId, createdPages, pageIdx, blockIdx>>
    /\ console' = IF IsDryRun(dryRun)
                  THEN Append(console, WouldCreate("page", pageIdx))
                  ELSE console
    /\ UNCHANGED <<dryRun, data, applicationId, exitCode, run, snap, mwVars, ctlVars, parVars>>

\* one createContentBlock call and the loop step that follows it
PopCreateContentBlock ==
    /\ ppc = "createContentBlock"
    /\ LET b       == NthBlock(data.pages[pageIdx].blocks, blockIdx)
           payload == [NoPayload EXCEPT !.pid = pageId, !.blockType = b.blockType,
                                        !.order = b.order]
           goOn    == IF blockIdx < Len(data.pages[pageIdx].blocks)
                      THEN /\ blockIdx' = blockIdx + 1
                           /\ UNCHANGED <<ppc, pageIdx, success>>
                      ELSE AfterPage /\ blockIdx' = blockIdx
       IN
       IF IsDryRun(dryRun)
       THEN goOn /\ UNCHANGED <<srv, log>>
       ELSE \E o \in PostBlockOutcomes :
            /\ log' = Append(log, Call("POST", "/api/content-blocks", o, pageIdx, payload))
            /\ srv' = IF o = "created"
                      THEN [srv EXCEPT !.blocks = @ \cup
                               {[id |-> NewId(srv.blocks), page |-> pageId,
                                 blockType |-> b.blockType, order |-> b.order]}]
                      ELSE srv
            /\ IF LoopGoesOn(o = "created")
               THEN goOn
               ELSE ReturnFalse /\ UNCHANGED <<pageIdx, blockIdx>>
    /\ console' = IF IsDryRun(dryRun)
                  THEN Append(console, WouldCreate("block", pageIdx))
                  ELSE console
    /\ UNCHANGED <<dryRun, data, applicationId, createdPages, pageId, exitCode, run,
                   snap, mwVars, ctlVars, parVars>>

\* process.exit(success ? 0 : 1)
PopExit ==
    /\ ppc = "returned"
    /\ ppc' = "exited"
    /\ exitCode' = IF success = "true" THEN 0 ELSE 1
    /\ snap' = IF run = 1 THEN [srv |-> srv, exitCode |-> exitCode'] ELSE snap
    /\ UNCHANGED <<dryRun, data, applicationId, createdPages, pageIdx, blockIdx, pageId,
                   success, srv, log, console, run, mwVars, ctlVars, parVars>>

\* the script is started again on the same seed and the same data layer
PopRerun ==
    /\ ppc = "exited"
    /\ run < MaxRuns
    /\ run' = run + 1
    /\ ppc' = "start"
    /\ applicationId' = 0
    /\ createdPages' = <<>>
    /\ pageIdx' = 0
    /\ blockIdx' = 0
    /\ pageId' = 0
    /\ success' = "pending"
    /\ exitCode' = -1
    /\ log' = <<>>
    /\ console' = <<>>
    /\ UNCHANGED <<dryRun, data, srv, snap, mwVars, ctlVars, parVars>>

-----------------------------------------------------------------------------
(* Markdown parser: the file as a sequence of lines *)

\* One line of the file.  kind says which literal pieces of the parser's
\* patterns the line holds; key and val carry what lies around a colon.
Line(kind, key, val) == [kind |-> kind, key |-> key, val |-> val]

Heading(i)      == Line("page", "### page", i)     \* ### PAGE: <name>
Blank           == Line("blank", "", 0)            \* the empty line
Fence           == Line("fence", "", 0)            \* ```
Rule            == Line("rule", "", 0)             \* ---
KeyValue(k, v)  == Line("kv", k, v)                \* key: value
BlockHeading(j) == Line("block", "**block j", j)   \* **BLOCK j: <name>**
ContentLine     == Line("content", "content", 0)   \* CONTENT:
StylingLine     == Line("styling", "styling", 0)   \* STYLING:
JsonLine(v)     == Line("json", "{k", v)           \* {"k": v}
JsonOpen        == Line("jopen", "", 0)            \* {
JsonBody(v)     == Line("jbody", "k", v)           \* "k": v
JsonClose       == Line("jclose", "", 0)           \* }
JsonNest        == Line("jnest", "n", 0)           \* "n": {
BadJson         == Line("badjson", "", 0)          \* {bad}
BadOpen         == Line("badopen", "", 0)          \* {bad

IsHeading(l)       == l.kind = "page"
IsBlank(l)         == l.kind = "blank"
IsFence(l)         == l.kind = "fence"
IsRule(l)          == l.kind = "rule"
IsBlockHeading(l)  == l.kind = "block"
EndsWithStars(l)   == l.kind = "block"
HasColon(l)        == l.kind \in {"page", "kv", "block", "content", "styling",
                                   "json", "jbody", "jnest"}
StartsWithHash(l)  == l.kind = "page"
StartsWithBrace(l) == l.kind \in {"json", "jopen", "badjson", "badopen"}
EndsWithBrace(l)   == l.kind \in {"json", "jclose", "badjson"}

\* content: {} / styling: {}
EmptyJson == 0

\* JSON.parse of the captured lines
ParseJson(ls) ==
    IF Len(ls) = 1 /\ ls[1].kind = "json"
    THEN [ok |-> TRUE, val |-> ls[1].val]
    ELSE IF /\ Len(ls) = 3
            /\ ls[1].kind = "jopen" /\ ls[2].kind = "jbody" /\ ls[3].kind = "jclose"
    THEN [ok |-> TRUE, val |-> ls[2].val]
    ELSE IF /\ Len(ls) = 5
            /\ ls[1].kind = "jopen" /\ ls[2].kind = "jnest" /\ ls[3].kind = "jbody"
            /\ ls[4].kind = "jclose" /\ ls[5].kind = "jclose"
    THEN [ok |-> TRUE, val |-> ls[3].val]
    ELSE [ok |-> FALSE, val |-> EmptyJson]

\* the first line at or after i that is not empty (\s* runs over empty lines)
RECURSIVE SkipBlank(_, _)
SkipBlank(ls, i) ==
    IF i > Len(ls) THEN 0
    ELSE IF IsBlank(ls[i]) THEN SkipBlank(ls, i + 1)
    ELSE i

\* the first line at or after h that holds "### PAGE: "
RECURSIVE HeadingFrom(_, _)
HeadingFrom(ls, h) ==
    IF h > Len(ls) THEN 0
    ELSE IF IsHeading(ls[h]) THEN h
    ELSE HeadingFrom(ls, h + 1)

\* (.*?)\n\n```\n : the first line at or after k that is followed by an
\* empty line and a fence line; the lazy group runs up to the end of it
RECURSIVE FenceOpenFrom(_, _)
FenceOpenFrom(ls, k) ==
    IF k + 2 > Len(ls) THEN 0
    ELSE IF IsBlank(ls[k + 1]) /\ IsFence(ls[k + 2]) THEN k
    ELSE FenceOpenFrom(ls, k + 1)

\* (.*?)\n``` : the first line at or after m that is followed by a fence
\* line; the lazy group holds at least the line after the opening fence
RECURSIVE FenceCloseFrom(_, _)
FenceCloseFrom(ls, m) ==
    IF m + 1 > Len(ls) THEN 0
    ELSE IF IsFence(ls[m + 1]) THEN m
    ELSE FenceCloseFrom(ls, m + 1)

\* content.indexOf('\n---', pageStart)
RECURSIVE RuleFrom(_, _)
RuleFrom(ls, r) ==
    IF r > Len(ls) THEN 0
    ELSE IF IsRule(ls[r]) THEN r
    ELSE RuleFrom(ls, r + 1)

\* section.replace(/```.*?```/gs, ''): what lies between two fence marks goes
RECURSIVE RemoveCodeBlocks(_)
RemoveCodeBlocks(ls) ==
    LET f1 == FenceCloseFrom(ls, 0)
        f2 == IF f1 = 0 THEN 0 ELSE FenceCloseFrom(ls, f1 + 1)
    IN  IF f1 = 0 \/ f2 = 0 THEN ls
        ELSE SubSeq(ls, 1, f1) \o <<Blank>>
             \o RemoveCodeBlocks(SubSeq(ls, f2 + 2, Len(ls)))

\* extractKeyValueSection: every line with a colon that does not start with
\* '#' sets result[key]; a later line with the same key overwrites
ExtractKeyValueSection(section) ==
    LET ls   == RemoveCodeBlocks(section)
        at   == {i \in 1..Len(ls) : HasColon(ls[i]) /\ ~StartsWithHash(ls[i])}
        keys == {ls[i].key : i \in at}
    IN  [k \in keys |->
            ls[CHOOSE i \in at : ls[i].key = k
                                 /\ \A j \in at : ls[j].key = k => j <= i].val]

\* (.*)\n``` : the header group taken as far as the text allows
HeaderEndGreedy(content, k) ==
    LET ends == {m \in (k + 3)..(Len(content) - 1) : IsFence(content[m + 1])}
    IN  IF ends = {} THEN 0 ELSE CHOOSE m \in ends : \A j \in ends : j <= m

\* (.*?)\n``` : the header group ends before the first closing fence
HeaderEnd(content, k) == FenceCloseFrom(content, k + 3)

\* pagePattern.exec in a loop: each match starts at a heading, takes the
\* lines up to the first opening fence as the name and the lines up to the
\* first closing fence as the header; the search goes on after that fence
RECURSIVE PageMatches(_, _)
PageMatches(content, pos) ==
    LET h == HeadingFrom(content, pos)
        k == IF h = 0 THEN 0 ELSE FenceOpenFrom(content, h)
        m == IF k = 0 THEN 0 ELSE HeaderEnd(content, k)
    IN  IF m = 0 THEN <<>>
        ELSE <<[start |-> h, pageHeader |-> SubSeq(content, k + 3, m), end |-> m + 1]>>
             \o PageMatches(content, m + 2)

\* the first line at or after b that holds "**BLOCK <n>: "
RECURSIVE BlockHeadingFrom(_, _)
BlockHeadingFrom(ls, b) ==
    IF b > Len(ls) THEN 0
    ELSE IF IsBlockHeading(ls[b]) THEN b
    ELSE BlockHeadingFrom(ls, b + 1)

\* (.*?)\*\*\n\n```\n : the first line at or after k that ends with "**" and
\* is followed by an empty line and a fence line
RECURSIVE BlockOpenFrom(_, _)
BlockOpenFrom(ls, k) ==
    IF k + 2 > Len(ls) THEN 0
    ELSE IF EndsWithStars(ls[k]) /\ IsBlank(ls[k + 1]) /\ IsFence(ls[k + 2]) THEN k
    ELSE BlockOpenFrom(ls, k + 1)

NoMatch == [found |-> FALSE, lines |-> <<>>]

\* ({.*?})\s*STYLING: : the first line at or after j that ends with "}" and
\* has STYLING: as the next line that is not empty
RECURSIVE ContentEndFrom(_, _)
ContentEndFrom(ls, j) ==
    IF j > Len(ls) THEN 0
    ELSE IF /\ EndsWithBrace(ls[j])
            /\ SkipBlank(ls, j + 1) # 0
            /\ ls[SkipBlank(ls, j + 1)].kind = "styling"
    THEN j
    ELSE ContentEndFrom(ls, j + 1)

\* ({.*?})(?:\n|$) : the first line at or after j that ends with "}"
RECURSIVE StylingEndFrom(_, _)
StylingEndFrom(ls, j) ==
    IF j > Len(ls) THEN 0
    ELSE IF EndsWithBrace(ls[j]) THEN j
    ELSE StylingEndFrom(ls, j + 1)

\* blockContent.match(/CONTENT:\s*\n({.*?})\s*STYLING:/s), tried at each
\* CONTENT: line from the top
RECURSIVE ContentMatch(_, _)
ContentMatch(blockContent, pos) ==
    IF pos > Len(blockContent) THEN NoMatch
    ELSE IF blockContent[pos].kind # "content" THEN ContentMatch(blockContent, pos + 1)
    ELSE LET j1 == SkipBlank(blockContent, pos + 1)
             j2 == IF j1 # 0 /\ StartsWithBrace(blockContent[j1])
                   THEN ContentEndFrom(blockContent, j1) ELSE 0
         IN  IF j2 # 0
             THEN [found |-> TRUE, lines |-> SubSeq(blockContent, j1, j2)]
             ELSE ContentMatch(blockContent, pos + 1)

\* blockContent.match(/STYLING:\s*\n({.*?})(?:\n|$)/s), tried at each
\* STYLING: line from the top
RECURSIVE StylingMatch(_, _)
StylingMatch(blockContent, pos) ==
    IF pos > Len(blockContent) THEN NoMatch
    ELSE IF blockContent[pos].kind # "styling" THEN StylingMatch(blockContent, pos + 1)
    ELSE LET j1 == SkipBlank(blockContent, pos + 1)
             j2 == IF j1 # 0 /\ StartsWithBrace(blockContent[j1])
                   THEN StylingEndFrom(blockContent, j1) ELSE 0
         IN  IF j2 # 0
             THEN [found |-> TRUE, lines |-> SubSeq(blockContent, j1, j2)]
             ELSE StylingMatch(blockContent, pos + 1)

\* if (match) { try { field = JSON.parse(match[1]) } catch { warning } }
JsonOrDefault(match) ==
    IF match.found /\ ParseJson(match.lines).ok
    THEN ParseJson(match.lines).val
    ELSE EmptyJson

\* a block whose two fields are parsed under one try: one failure loses both
BlockDataOneTry(meta, contentMatch, stylingMatch) ==
    LET bothOk == /\ contentMatch.found => ParseJson(contentMatch.lines).ok
                  /\ stylingMatch.found => ParseJson(stylingMatch.lines).ok
    IN  [metadata |-> meta,
         content  |-> IF bothOk THEN JsonOrDefault(contentMatch) ELSE EmptyJson,
         styling  |-> IF bothOk THEN JsonOrDefault(stylingMatch) ELSE EmptyJson]

\* blockData: both fields start as {} and each is parsed under its own try
BlockData(meta, contentMatch, stylingMatch) ==
    [metadata |-> meta,
     content  |-> JsonOrDefault(contentMatch),
     styling  |-> JsonOrDefault(stylingMatch)]

\* blockPattern.exec in a loop over the page section
RECURSIVE BlockMatches(_, _)
BlockMatches(pageSection, pos) ==
    LET b == BlockHeadingFrom(pageSection, pos)
        k == IF b = 0 THEN 0 ELSE BlockOpenFrom(pageSection, b)
        m == IF k = 0 THEN 0 ELSE FenceCloseFrom(pageSection, k + 3)
        blockContent == SubSeq(pageSection, k + 3, m)
    IN  IF m = 0 THEN <<>>
        ELSE <<BlockData(ExtractKeyValueSection(blockContent),
                         ContentMatch(blockContent, 1),
                         StylingMatch(blockContent, 1))>>
             \o BlockMatches(pageSection, m + 2)

ExtractBlocks(pageSection) == BlockMatches(pageSection, 1)

ExtractPages(content) ==
    LET matches == PageMatches(content, 1) IN
    [index \in 1..Len(matches) |->
        LET pageStart == matches[index].end + 1
            rule      == RuleFrom(content, pageStart)
            pageEnd   == IF index < Len(matches) THEN matches[index + 1].start - 1
                         ELSE IF rule # 0 THEN rule - 1
                         ELSE Len(content)
        IN  [metadata |-> ExtractKeyValueSection(matches[index].pageHeader),
             blocks   |-> ExtractBlocks(SubSeq(content, pageStart, pageEnd))]]

-----------------------------------------------------------------------------
(* Markdown files the parser is run on *)

MaxDocPages  == 2
MaxDocBlocks == 2

\* a JSON sub-section: one line, three lines, five lines with an object in
\* the object, braces around text that is not JSON, a brace never closed
JsonForms == {"line", "lines", "nested", "bad", "open"}

JsonSection(form, v) ==
    CASE form = "line"  -> <<JsonLine(v)>>
      [] form = "lines" -> <<JsonOpen, JsonBody(v), JsonClose>>
      [] form = "nested" -> <<JsonOpen, JsonNest, JsonBody(v), JsonClose, JsonClose>>
      [] form = "bad"   -> <<BadJson>>
      [] form = "open"  -> <<BadOpen>>

\* the value block j's CONTENT and STYLING objects hold
ContentValue(j) == j
StylingValue(j) == 0 - j

\* **BLOCK j: <name>**, an empty line and the fenced block body
BlockChunk(j, cform, sform) ==
    <<BlockHeading(j), Blank, Fence, KeyValue("order", j), ContentLine>>
    \o JsonSection(cform, ContentValue(j))
    \o <<StylingLine>>
    \o JsonSection(sform, StylingValue(j))
    \o <<Fence, Blank>>

\* ### PAGE: <name> with its fenced metadata, without any, or with a fence
\* pair that holds no line
HeadingForms == {"fenced", "bare", "emptyfence"}

HeadingChunk(i, form) ==
    CASE form = "fenced"     -> <<Heading(i), Blank, Fence, KeyValue("slug", i), Fence, Blank>>
      [] form = "bare"       -> <<Heading(i), Blank>>
      [] form = "emptyfence" -> <<Heading(i), Blank, Fence, Fence, Blank>>

RECURSIVE BlockChunks(_, _, _)
BlockChunks(i, n, odd) ==
    IF n = 0 THEN <<>>
    ELSE BlockChunks(i, n - 1, odd)
         \o (IF odd.page = i /\ odd.block = n
             THEN BlockChunk(n, odd.content, odd.styling)
             ELSE BlockChunk(n, "line", "line"))

\* pages 1..n: page i has counts[i] blocks, page bare.page has the heading
\* form bare.form, block odd.block of page odd.page has the JSON forms
\* odd.content and odd.styling, and a rule closes each page when rules holds
RECURSIVE Doc(_, _, _, _, _)
Doc(n, counts, bare, odd, rules) ==
    IF n = 0 THEN <<>>
    ELSE Doc(n - 1, counts, bare, odd, rules)
         \o HeadingChunk(n, IF bare.page = n THEN bare.form ELSE "fenced")
         \o BlockChunks(n, counts[n], odd)
         \o (IF rules THEN <<Rule, Blank>> ELSE <<>>)

NoBare == [page |-> 0, form |-> "fenced"]
NoOdd  == [page |-> 0, block |-> 0, content |-> "line", styling |-> "line"]

\* the heading forms page i may take in place of the fenced one
Bares(n) == [page : 1..n, form : HeadingForms \ {"fenced"}]

\* the blocks that may take other JSON forms than one valid line each
Odds(n, counts) ==
    {o \in [page : 1..n, block : 1..MaxDocBlocks,
            content : JsonForms, styling : JsonForms] :
        /\ o.block <= counts[o.page]
        /\ <<o.content, o.styling>> # <<"line", "line">>}

\* at most one heading or one block of a file departs from the plain form
Irregular(n, counts) ==
    ({NoBare} \X ({NoOdd} \cup Odds(n, counts))) \cup (Bares(n) \X {NoOdd})

ParIdle ==
    /\ parpc = "idle"
    /\ md = <<>>
    /\ mdPages = <<>>

\* parseMarkdown: const pages = this.extractPages(content)
ParExtractPages ==
    /\ parpc = "read"
    /\ parpc' = "parsed"
    /\ mdPages' = ExtractPages(md)
    /\ UNCHANGED <<md, mwVars, ctlVars, popVars>>

-----------------------------------------------------------------------------
(* Specifications *)

CtlIdle ==
    /\ ctlpc = "idle"
    /\ db = [apps |-> {}, pages |-> {}]
    /\ call = NoCall
    /\ resp = Response("none", 0, {})

MwInit == (\E r \in Requests : MwReceived(r)) /\ CtlIdle /\ PopIdle /\ ParIdle
MwNext == MwHandle
MwSpec == MwInit /\ [][MwNext]_vars

CtlInit ==
    /\ MwIdle
    /\ PopIdle
    /\ ParIdle
    /\ ctlpc = "idle"
    /\ \E apps \in AppSets : \E pages \in PageSets(apps) :
           db = [apps |-> apps, pages |-> pages]
    /\ call = NoCall
    /\ resp = Response("none", 0, {})

CtlNext == CtlFindByDomain \/ CtlFindPageByPath
CtlSpec == CtlInit /\ [][CtlNext]_vars

PopInit ==
    /\ MwIdle
    /\ CtlIdle
    /\ ParIdle
    /\ PopFresh
    /\ dryRun \in BOOLEAN
    /\ data \in Seeds
    /\ srv \in InitialSrvs
    /\ run = 1
    /\ snap = NoSnap

PopNext ==
    \/ PopParse
    \/ PopCreateApplication
    \/ PopCreateSinglePage
    \/ PopCreateContentBlock
    \/ PopExit
    \/ PopRerun

PopSpec == PopInit /\ [][PopNext]_vars

ParInit ==
    /\ MwIdle
    /\ CtlIdle
    /\ PopIdle
    /\ parpc = "read"
    /\ \E n \in 0..MaxDocPages : \E counts \in [1..n -> 0..MaxDocBlocks] :
       \E d \in Irregular(n, counts) : \E rules \in BOOLEAN :
           md = Doc(n, counts, d[1], d[2], rules)
    /\ mdPages = <<>>

ParNext == ParExtractPages
ParSpec == ParInit /\ [][ParNext]_vars

-----------------------------------------------------------------------------
(* Properties of the middleware *)

MwEnded == mwpc \in {"done", "threw"}

\* the applicationId query parameter as the client sent it
ReqParam(k) ==
    IF \E i \in 1..Len(req.params) : req.params[i].key = k
    THEN req.params[CHOOSE i \in 1..Len(req.params) : req.params[i].key = k].val
    ELSE Undefined

\* the request carries tenant identifier t in the header, or only in the query
ReqCarries(t) ==
    \/ req.header = t
    \/ req.header = Undefined /\ ReqParam(<<"applicationId">>) = t

PageFilterKey  == <<"filters", "application", "id", "$eq">>
BlockFilterKey == <<"filters", "page", "application", "id", "$eq">>

\* the keys of the query object whose presence or value the middleware changed
ChangedKeys ==
    {k \in (DOMAIN ctx.query) \cup (DOMAIN query0) :
        \/ k \notin DOMAIN ctx.query
        \/ k \notin DOMAIN query0
        \/ ctx.query[k] # query0[k]}

\* C1: every GET /api/pages request carrying tenant T, whatever its query
\* string holds, continues with filters.application.id.$eq = T; under the
\* /admin prefix the query is untouched.
C1_PagesAlwaysFiltered ==
    /\ \A t \in TenantIds :
        (mwpc = "done" /\ req.method = "GET" /\ req.path = <<"/api", "/pages">>
            /\ ReqCarries(t))
        => Leaf(ctx.query, PageFilterKey) = t
    /\ (MwEnded /\ req.path = <<"/admin", "/api", "/pages">>) => ctx.query = query0

\* C2: every GET /api/content-blocks request carrying tenant T gets
\* filters.page.application.id.$eq = T and no filter on filters.application.
C2_BlocksNestedFilterOnly ==
    \A t \in TenantIds :
        (mwpc = "done" /\ req.method = "GET" /\ req.path = <<"/api", "/content-blocks">>
            /\ ReqCarries(t))
        => /\ Leaf(ctx.query, BlockFilterKey) = t
           /\ \A k \in ChangedKeys : ~IsPrefix(<<"filters", "application">>, k)

\* C3: the header wins over the applicationId query parameter, the parameter
\* is used only without a header value, and without both nothing is set or
\* filtered.
C3_Used(t) ==
    /\ ctx.applicationId \in {Undefined, t}
    /\ \A k \in ChangedKeys : k \in DOMAIN ctx.query => ctx.query[k] = t
    /\ (~SkipsNonApi(ctx) /\ ~SkipsApplications(ctx)) => ctx.applicationId = t

C3_HeaderPrecedence ==
    MwEnded =>
        LET h == req.header
            p == ReqParam(<<"applicationId">>)
        IN  /\ Truthy(h) => C3_Used(h)
            /\ (~Truthy(h) /\ Truthy(p)) => C3_Used(p)
            /\ (~Truthy(h) /\ ~Truthy(p)) =>
                   ctx.applicationId = Undefined /\ ctx.query = query0

\* header and parameter disagree and a filter was injected with the header's value
C3_Witness ==
    /\ mwpc = "done"
    /\ req.header = <<"42">>
    /\ ReqParam(<<"applicationId">>) = <<"7">>
    /\ ctx.applicationId = <<"42">>
    /\ Leaf(ctx.query, PageFilterKey) = <<"42">>
    /\ ctx.query # query0

\* the request addresses the pages or the content-blocks resource
ReqResourceFiltered ==
    \/ StartsWith(req.path, <<"/api", "/pages">>)
    \/ StartsWith(req.path, <<"/api", "/content-blocks">>)

\* C4: the query object changes only for a GET with a tenant identifier on
\* the pages or content-blocks resource under /api; every other request
\* keeps its query object.
C4_QueryFrame ==
    (MwEnded /\ ctx.query # query0) =>
        /\ req.method = "GET"
        /\ Truthy(req.header) \/ Truthy(ReqParam(<<"applicationId">>))
        /\ ReqResourceFiltered

-----------------------------------------------------------------------------
(* Properties of the controller *)

CalledFindByDomain == ctlpc = "done" /\ call.op = "findByDomain"

\* C5: findByDomain answers with the tenant only when a tenant of exactly that
\* domain exists and is active; an inactive tenant gives forbidden and never
\* the payload, no match gives not-found, a missing domain gives bad-request.
C5_FindByDomainOutcomes ==
    CalledFindByDomain =>
        LET m == {a \in db.apps : a.domain = call.domain} IN
        /\ resp.kind = "ok" =>
               \E a \in m : a.active /\ resp.app = a.id
                            /\ \A pg \in resp.pages : pg.app = a.id
        /\ (\E a \in m : ~a.active) => resp.kind # "ok"
        /\ (call.fails = 0 /\ \E a \in m : ~a.active) => resp.kind = "forbidden"
        /\ (call.fails = 0 /\ \E a \in m : a.active) => resp.kind = "ok"
        /\ (call.fails = 0 /\ m = {} /\ ~Missing(call.domain)) => resp.kind = "notFound"
        /\ Missing(call.domain) => resp.kind = "badRequest"

\* an inactive tenant was looked up and refused
C5_Witness ==
    /\ CalledFindByDomain
    /\ \E a \in db.apps : a.domain = call.domain /\ ~a.active
    /\ resp.kind = "forbidden"
    /\ \E b \in db.apps : b.active

\* C6: for an active tenant, findPageByPath with path "" gives an outcome
\* that findPageByPath with path "/" gives.
C6_EmptyPathIsRoot ==
    (/\ ctlpc = "done"
     /\ call.op = "findPageByPath"
     /\ call.path = ""
     /\ call.fails = 0
     /\ \E a \in db.apps : a.domain = call.domain /\ a.active)
    => resp \in FindPageByPath(db, call.domain, "/", 0)

-----------------------------------------------------------------------------
(* Properties of the populator *)

IsCall(e, method, endpoint) == e.method = method /\ e.endpoint = endpoint

Obtained(e) == e.outcome \in {"created", "found"}
Failed(e)   == e.outcome \in {"error", "empty"}

\* block POSTs of page i among the first k calls of the run
BlockPosts(i, k) ==
    {j \in 1..k : IsCall(log[j], "POST", "/api/content-blocks") /\ log[j].page = i}

\* the run met an existing tenant and its re-fetch was not answered with a
\* failure or an empty list
ConflictOnApplication ==
    /\ ~dryRun
    /\ Len(log) >= 1
    /\ IsCall(log[1], "POST", "/api/applications")
    /\ log[1].outcome = "conflict"
    /\ ~(Len(log) >= 2 /\ IsCall(log[2], "GET", "/api/applications") /\ Failed(log[2]))

\* C7: when the tenant already exists (POST /api/applications answers with a
\* uniqueness conflict) the run re-fetches it by domain, takes its identifier
\* as applicationId, creates no second tenant and goes on to the pages.
C7_ReusesExistingTenant ==
    ConflictOnApplication =>
        /\ Len(log) >= 2
        /\ IsCall(log[2], "GET", "/api/applications")
        /\ log[2].slug = data.domain
        /\ log[2].outcome = "found"
        /\ \E a \in srv.apps : a.domain = data.domain /\ applicationId = a.id
        /\ Cardinality({a \in srv.apps : a.domain = data.domain}) = 1
        /\ \A k \in 1..Len(log) :
               IsCall(log[k], "POST", "/api/applications") => log[k].outcome # "created"
        /\ ~(success = "false" /\ Len(log) = 2)
        /\ Len(data.pages) = 0 => success = "true"
        /\ (Len(data.pages) > 0) =>
               /\ ppc # "createApplication"
               /\ Len(log) >= 3 =>
                      /\ IsCall(log[3], "POST", "/api/pages")
                      /\ log[3].app = applicationId

\* the first run met the tenant, found it and posted a page under its identifier
C7_Witness ==
    /\ run = 1
    /\ ConflictOnApplication
    /\ Len(log) >= 3
    /\ log[2].outcome = "found"
    /\ IsCall(log[3], "POST", "/api/pages")
    /\ log[3].outcome = "created"
    /\ log[3].app = applicationId
    /\ applicationId = 1

\* C8: a second successful run on the same seed and data layer leaves the
\* records as the first successful run left them.
C8_SecondRunAddsNothing ==
    (/\ ~dryRun
     /\ run = 2
     /\ ppc = "exited"
     /\ exitCode = 0
     /\ snap.exitCode = 0)
    => srv = snap.srv

\* C9: calls are made one after the other in this order: the application is
\* obtained before any page is posted, a page is obtained before any of its
\* blocks is posted, a page's blocks are posted in parse order whatever their
\* order field, and all blocks of a page are posted before the next page.
C9_CallOrder ==
    \A k \in 1..Len(log) :
        LET e == log[k] IN
        /\ \A j \in 1..(k - 1) : log[j].page <= e.page
        /\ IsCall(e, "POST", "/api/pages") =>
               /\ \E j \in 1..(k - 1) :
                      log[j].endpoint = "/api/applications" /\ Obtained(log[j])
               /\ e.app # 0
               /\ e.app = applicationId
               /\ e.slug = data.pages[e.page].slug
               /\ \A i \in 1..(e.page - 1) :
                      /\ Cardinality(BlockPosts(i, k - 1)) = Len(data.pages[i].blocks)
                      /\ \A j \in BlockPosts(i, k - 1) : Obtained(log[j])
        /\ IsCall(e, "POST", "/api/content-blocks") =>
               /\ \E j \in 1..(k - 1) :
                      /\ log[j].endpoint = "/api/pages"
                      /\ log[j].page = e.page
                      /\ Obtained(log[j])
               /\ e.pid # 0
               /\ \E pg \in srv.pages :
                      /\ pg.id = e.pid
                      /\ pg.slug = data.pages[e.page].slug
                      /\ pg.app = applicationId
               /\ LET n == Cardinality(BlockPosts(e.page, k)) IN
                      /\ n <= Len(data.pages[e.page].blocks)
                      /\ e.blockType = data.pages[e.page].blocks[n].blockType
                      /\ e.order = data.pages[e.page].blocks[n].order

\* two blocks whose order fields run against parse order were posted, then
\* the second page
C9_Witness ==
    /\ Len(data.pages) = 2
    /\ Len(data.pages[1].blocks) = 2
    /\ data.pages[1].blocks[1].order > data.pages[1].blocks[2].order
    /\ Cardinality(BlockPosts(1, Len(log))) = 2
    /\ \E k \in 1..Len(log) : IsCall(log[k], "POST", "/api/pages") /\ log[k].page = 2

\* C10: after a failure that is not a recovered uniqueness conflict no
\* further call is made, populate returns false and the exit code is 1; the
\* exit code is 0 only when the application, every page and every block were
\* created or found.
C10_FailureAborts ==
    ~dryRun =>
        /\ \A k \in 1..Len(log) :
               /\ Failed(log[k]) =>
                      /\ k = Len(log)
                      /\ success = "false"
                      /\ ppc \in {"returned", "exited"}
               /\ log[k].outcome = "conflict" =>
                      /\ k < Len(log)
                      /\ log[k + 1].method = "GET"
                      /\ log[k + 1].endpoint = log[k].endpoint
        /\ ppc = "exited" =>
               /\ exitCode \in {0, 1}
               /\ success = "false" <=> exitCode = 1
        /\ ppc # "exited" => exitCode = -1
        /\ exitCode = 0 =>
               /\ \E k \in 1..Len(log) :
                      log[k].endpoint = "/api/applications" /\ Obtained(log[k])
               /\ \A i \in 1..Len(data.pages) :
                      /\ \E k \in 1..Len(log) :
                             /\ log[k].endpoint = "/api/pages"
                             /\ log[k].page = i
                             /\ Obtained(log[k])
                      /\ Cardinality({j \in BlockPosts(i, Len(log)) : Obtained(log[j])})
                             = Len(data.pages[i].blocks)

\* a page conflict whose re-fetch listed nothing ended the run with code 1
\* while a page and its blocks were still to be created
C10_Witness ==
    /\ ~dryRun
    /\ ppc = "exited"
    /\ exitCode = 1
    /\ Len(log) >= 2
    /\ log[Len(log)].outcome = "empty"
    /\ IsCall(log[Len(log)], "GET", "/api/pages")
    /\ log[Len(log) - 1].outcome = "conflict"
    /\ pageIdx < Len(data.pages)
    /\ Len(data.pages[pageIdx + 1].blocks) > 0

\* the dry-run lines of one step kind printed for page i
WouldLines(step, i) ==
    {k \in 1..Len(console) : console[k] = WouldCreate(step, i)}

\* the page createSinglePage was last entered for
LastPage == IF ppc = "createSinglePage" THEN pageIdx - 1 ELSE pageIdx

\* C11: in dry-run mode no HTTP call is ever made and the data layer is left
\* as it was; the application step sets the identifier 1, a page step takes
\* the number of pages recorded so far plus one, every application, page and
\* block step prints its intention, and a run whose seed was parsed returns
\* true and exits with code 0.
C11_DryRunMakesNoCall ==
    dryRun =>
        /\ log = <<>>
        /\ srv \in InitialSrvs
        /\ run > 1 => srv = snap.srv
        /\ applicationId \in {0, 1}
        /\ applicationId = 1 <=> console # <<>>
        /\ console # <<>> => console[1] = WouldCreate("application", 0)
        /\ \A k \in 2..Len(console) : console[k].step \in {"page", "block"}
        /\ LastPage >= 1 =>
               /\ pageId = Cardinality({data.pages[i].slug : i \in 1..(LastPage - 1)}) + 1
               /\ createdPages[data.pages[LastPage].slug] = pageId
        /\ \A i \in 1..Len(data.pages) :
               /\ Cardinality(WouldLines("page", i)) = (IF i <= LastPage THEN 1 ELSE 0)
               /\ i < LastPage =>
                      Cardinality(WouldLines("block", i)) = Len(data.pages[i].blocks)
        /\ success = "false" => applicationId = 0 /\ console = <<>>
        /\ (ppc \in {"returned", "exited"} /\ applicationId = 1) =>
               /\ success = "true"
               /\ \A i \in 1..Len(data.pages) :
                      /\ Cardinality(WouldLines("page", i)) = 1
                      /\ Cardinality(WouldLines("block", i)) = Len(data.pages[i].blocks)
        /\ (ppc = "exited" /\ applicationId = 1) => exitCode = 0

\* a dry run over two pages with blocks, one of them taking a repeated
\* slug, ran to its exit against a data layer that already held rows
C11_Witness ==
    /\ dryRun
    /\ ppc = "exited"
    /\ exitCode = 0
    /\ Len(data.pages) = 2
    /\ \A i \in 1..2 : Len(data.pages[i].blocks) > 0
    /\ Len(console) = 3 + Len(data.pages[1].blocks) + Len(data.pages[2].blocks)
    /\ srv.apps # {}
    /\ log = <<>>

-----------------------------------------------------------------------------
(* Properties of the middleware: continuation and tenant scope *)

\* C14: whichever path a request takes through the middleware (bypassed,
\* unfiltered or filtered), once the middleware has ended next() has been
\* invoked exactly once and the request was continued.
C14_NextCalledOnce ==
    MwEnded => (mwpc = "done" /\ nextCalls = 1)

\* the keys of a query object at or below the key path p
KeysUnder(q, p) == {k \in DOMAIN q : IsPrefix(p, k)}

\* after the handler, q.p is exactly sub and nothing else of the client's
\* filters was touched (the empty filters holder stops being a leaf)
ReplacedBy(p, sub) ==
    /\ KeysUnder(ctx.query, p) = {p \o k : k \in DOMAIN sub}
    /\ \A k \in DOMAIN sub : ctx.query[p \o k] = sub[k]
    /\ \A k \in ChangedKeys : IsPrefix(p, k) \/ k = <<"filters">>

\* C15: for a GET on the page resource with tenant identifier T whatever the
\* client sent under filters.application is replaced, leaving exactly
\* {id: {$eq: T}}; for the content-block resource whatever it sent under
\* filters.page is replaced by {application: {id: {$eq: T}}}; every other
\* filter key of the client is left as it was.
C15_ScopeCannotBeWidened ==
    \A t \in TenantIds :
        (mwpc = "done" /\ req.method = "GET" /\ ReqCarries(t)) =>
            /\ StartsWith(req.path, <<"/api", "/pages">>) =>
                   ReplacedBy(<<"filters", "application">>, IdEq(t))
            /\ StartsWith(req.path, <<"/api", "/content-blocks">>) =>
                   ReplacedBy(<<"filters", "page">>, AppIdEq(t))

-----------------------------------------------------------------------------
(* Properties of the markdown parser *)

\* the lines of the file that hold a page heading
HeadingLines == {h \in 1..Len(md) : IsHeading(md[h])}

NumHeadings == Cardinality(HeadingLines)

\* the first line of ls at or after i of the given kind
RECURSIVE KindFrom(_, _, _)
KindFrom(ls, i, kind) ==
    IF i > Len(ls) THEN 0
    ELSE IF ls[i].kind = kind THEN i
    ELSE KindFrom(ls, i + 1, kind)

\* the n-th line of ls at or after i of the given kind
RECURSIVE NthOfKind(_, _, _, _)
NthOfKind(ls, i, kind, n) ==
    LET x == KindFrom(ls, i, kind)
    IN  IF n <= 1 \/ x = 0 THEN x ELSE NthOfKind(ls, x + 1, kind, n - 1)

\* the line of the i-th heading of the file
NthHeading(i) == NthOfKind(md, 1, "page", i)

\* the block headings between the i-th page heading and the next, in file order
BlockHeadingsOf(i) ==
    LET from == NthHeading(i)
        to   == IF i < NumHeadings THEN NthHeading(i + 1) - 1 ELSE Len(md)
    IN  SelectSeq(SubSeq(md, from, to), IsBlockHeading)

\* one entry per heading, in file order, each with its blocks in file order
PagesInOrder ==
    /\ Len(mdPages) = NumHeadings
    /\ \A i \in 1..Len(mdPages) :
           /\ "slug" \in DOMAIN mdPages[i].metadata
           /\ mdPages[i].metadata["slug"] = md[NthHeading(i)].val
           /\ Len(mdPages[i].blocks) = Len(BlockHeadingsOf(i))
           /\ \A j \in 1..Len(mdPages[i].blocks) :
                  /\ "order" \in DOMAIN mdPages[i].blocks[j].metadata
                  /\ mdPages[i].blocks[j].metadata["order"] = BlockHeadingsOf(i)[j].val

\* every heading is followed by an empty line, a fence line, at least one
\* line of metadata and a closing fence line
EveryHeadingFenced ==
    \A h \in HeadingLines :
        /\ h + 4 <= Len(md)
        /\ IsBlank(md[h + 1])
        /\ IsFence(md[h + 2])
        /\ ~IsFence(md[h + 3])
        /\ FenceCloseFrom(md, h + 3) # 0

\* C12 as stated: for a file with N page headings extractPages returns N
\* entries in file order, each with its blocks in file order.
C12_OnePagePerHeading ==
    parpc = "parsed" => PagesInOrder

\* C12 amended: for a file in which every page heading is followed by an
\* empty line and a fenced block of at least one metadata line,
\* extractPages returns one entry per heading in file order, each with its
\* blocks in file order.
C12_OnePagePerFencedHeading ==
    (parpc = "parsed" /\ EveryHeadingFenced) => PagesInOrder

\* two fenced headings with two blocks each, rules between the pages
C12_Witness ==
    /\ parpc = "parsed"
    /\ EveryHeadingFenced
    /\ NumHeadings = 2
    /\ \E r \in 1..Len(md) : IsRule(md[r])
    /\ Len(mdPages) = 2
    /\ \A i \in 1..2 : Len(mdPages[i].blocks) = 2

\* the line of the j-th block heading of the i-th page
NthBlockHeading(i, j) == NthOfKind(md, NthHeading(i), "block", j)

\* the first line after line l of the given kind
FirstAfter(l, kind) == KindFrom(md, l + 1, kind)

\* the lines the file holds under CONTENT: and under STYLING: in that block
ContentLinesOf(i, j) ==
    LET c == FirstAfter(NthBlockHeading(i, j), "content")
    IN  SubSeq(md, c + 1, FirstAfter(c, "styling") - 1)

StylingLinesOf(i, j) ==
    LET z == FirstAfter(NthBlockHeading(i, j), "styling")
    IN  SubSeq(md, z + 1, FirstAfter(z, "fence") - 1)

\* what a sub-section is worth: its value when it is JSON, {} when it is not
ValueOrEmpty(ls) == IF ParseJson(ls).ok THEN ParseJson(ls).val ELSE EmptyJson

\* a STYLING sub-section is read up to its first line that ends with "}"
UpToFirstBrace(ls) ==
    LET ends == {x \in 1..Len(ls) : EndsWithBrace(ls[x])}
    IN  IF ends = {} THEN ls
        ELSE SubSeq(ls, 1, CHOOSE x \in ends : \A y \in ends : x <= y)

====
